---- MODULE Spec2Model ----
\* A model of the notebook share.ipynb: one Jupyter kernel, its global
\* namespace, and one action per code cell.  Cells may be executed in any
\* order and any number of times, as Jupyter allows; a cell that reads a
\* name (or column) that does not exist raises and binds nothing.
\*
\* Representation
\*   - a Python str is the sequence of its character codes, so that
\*     sorting of group keys, formatting and parsing are computed;
\*   - a Timestamp is a record [year, month, day] (all times are midnight);
\*   - a DataFrame is a sequence of entries [label |-> index label,
\*     row |-> record of column values]; the columns are the row's DOMAIN;
\*   - floating-point values are fixed-point integers or exact fractions,
\*     the unit named at each definition;
\*   - the draws of np.random.normal are a fixed stream per seeding, which
\*     stream being chosen initially; draws lie within two deviations, so
\*     sales are positive;
\*   - the initial state is the kernel after the import cell; figures, loop
\*     temporaries and printed output are not kernel state of the model.
EXTENDS Integers, Sequences, FiniteSets, TLC

VARIABLES ns, np_random, execution_count, error

vars == <<ns, np_random, execution_count, error>>

\* ------------------------------------------------------------------ bounds
\* Number of code cells executed in one kernel session.
MaxExec == 4
\* Number of distinct generator streams np.random.seed(42) may select.
NumStreams == 2

\* ------------------------------------------------------------ Python str
\* The region and product names.
North == <<78, 111, 114, 116, 104>>
South == <<83, 111, 117, 116, 104>>
East == <<69, 97, 115, 116>>
West == <<87, 101, 115, 116>>
ProductA == <<80, 114, 111, 100, 117, 99, 116, 32, 65>>
ProductB == <<80, 114, 111, 100, 117, 99, 116, 32, 66>>
ProductC == <<80, 114, 111, 100, 117, 99, 116, 32, 67>>

\* '2023-01-01' and '2023-03-31'
Lit_2023_01_01 == <<50, 48, 50, 51, 45, 48, 49, 45, 48, 49>>
Lit_2023_03_31 == <<50, 48, 50, 51, 45, 48, 51, 45, 51, 49>>

\* A sequence given by a rule, evaluated once into a list.
AsList(s) == s \o <<>>

\* Python's str < str: lexicographic on code points, a proper prefix is less.
RECURSIVE StrLessFrom(_, _, _)
StrLessFrom(a, b, i) ==
    IF i > Len(a) THEN i <= Len(b)
    ELSE IF i > Len(b) THEN FALSE
    ELSE IF a[i] # b[i] THEN a[i] < b[i]
    ELSE StrLessFrom(a, b, i + 1)

StrLess(a, b) == StrLessFrom(a, b, 1)

\* sorted(keys) for a set of str: the order in which groupby emits its
\* groups.
RECURSIVE SortedStrs(_)
SortedStrs(S) ==
    IF S = {} THEN <<>>
    ELSE LET m == CHOOSE x \in S : \A y \in S \ {x} : StrLess(x, y)
         IN  <<m>> \o SortedStrs(S \ {m})

\* ------------------------------------------------------------ Timestamps
IsLeap(y) == (y % 4 = 0 /\ y % 100 # 0) \/ y % 400 = 0

DaysInMonth(y, m) ==
    IF m = 2 THEN (IF IsLeap(y) THEN 29 ELSE 28)
    ELSE IF m \in {4, 6, 9, 11} THEN 30 ELSE 31

Digit(c) == c - 48

\* pd.Timestamp('YYYY-MM-DD'): the literal parsed field by field.
to_timestamp(s) ==
    [year  |-> 1000 * Digit(s[1]) + 100 * Digit(s[2]) + 10 * Digit(s[3]) + Digit(s[4]),
     month |-> 10 * Digit(s[6]) + Digit(s[7]),
     day   |-> 10 * Digit(s[9]) + Digit(s[10])]

TsLess(a, b) ==
    \/ a.year < b.year
    \/ a.year = b.year /\ a.month < b.month
    \/ a.year = b.year /\ a.month = b.month /\ a.day < b.day

TsLeq(a, b) == a = b \/ TsLess(a, b)

MonthEnd(y, m) == [year |-> y, month |-> m, day |-> DaysInMonth(y, m)]

NextMonthEnd(t) ==
    IF t.month = 12 THEN MonthEnd(t.year + 1, 1) ELSE MonthEnd(t.year, t.month + 1)

\* pd.date_range(start=..., periods=n, freq='M'): n consecutive month ends,
\* the first being the first month end on or after start.
RECURSIVE MonthEnds(_, _)
MonthEnds(first, n) ==
    IF n = 0 THEN <<>> ELSE <<first>> \o MonthEnds(NextMonthEnd(first), n - 1)

date_range(start, periods) ==
    LET t == to_timestamp(start) IN MonthEnds(MonthEnd(t.year, t.month), periods)

TwoDigits(n) == <<48 + ((n \div 10) % 10), 48 + (n % 10)>>

\* Variant: the month written without zero padding ('%Y-%-m').
strftime_Ym_Unpadded(t) ==
    <<48 + ((t.year \div 1000) % 10), 48 + ((t.year \div 100) % 10)>>
        \o TwoDigits(t.year) \o <<45>>
        \o (IF t.month < 10 THEN <<48 + t.month>> ELSE TwoDigits(t.month))

\* Timestamp.strftime('%Y-%m'): four-digit year, '-', zero-padded month.
strftime_Ym(t) ==
    <<48 + ((t.year \div 1000) % 10), 48 + ((t.year \div 100) % 10)>>
        \o TwoDigits(t.year) \o <<45>> \o TwoDigits(t.month)

\* ------------------------------------------------------------ arithmetic
\* Python int(x) of the quotient n/d (d > 0): truncation toward zero.
Trunc(n, d) == IF n >= 0 THEN n \div d ELSE -((-n) \div d)

\* round(n/d) to the nearest integer, ties to even (numpy's round), d > 0.
RoundDiv(n, d) ==
    LET q == n \div d
        r == n % d
    IN  IF 2 * r < d THEN q
        ELSE IF 2 * r > d THEN q + 1
        ELSE IF q % 2 = 0 THEN q ELSE q + 1

\* ------------------------------------------------------------ generator
regions == <<North, South, East, West>>
products == <<ProductA, ProductB, ProductC>>
NumMonths == 12
months == date_range(Lit_2023_01_01, NumMonths)

base_sales(region, product) ==
    CASE region = North -> (CASE product = ProductA -> 100 [] product = ProductB -> 150 [] OTHER -> 80)
      [] region = South -> (CASE product = ProductA -> 120 [] product = ProductB -> 90 [] OTHER -> 110)
      [] region = East  -> (CASE product = ProductA -> 80 [] product = ProductB -> 120 [] OTHER -> 140)
      [] OTHER          -> (CASE product = ProductA -> 150 [] product = ProductB -> 100 [] OTHER -> 90)

\* sin(m / 12 * 2 * pi) in thousandths, m = 1..12.
SinMilli == <<500, 866, 1000, 866, 500, 0, -500, -866, -1000, -866, -500, 0>>

\* month_factor = 1 + 0.2 * sin(...), in units of 1/10000.
month_factor(m) == 10000 + 2 * SinMilli[m]

\* The k-th standard-normal draw (k = 0, 1, ...) of generator stream s after
\* seeding, in fifths of a standard deviation, within two deviations.  The
\* generator's arithmetic is the library's; the model keeps what the cell
\* relies on: a fixed stream per seeding, consumed in order.
StdNormal(s, k) == ((k * k * s + 5 * k + 3 * s * s + (k \div 7) * (s + 2)) % 21) - 10

\* Variant: profit taken as int(sales * (1 - ratio)) instead of sales - cost.
GenRow_ProfitFromMargin(s, i) ==
    LET region  == regions[(i \div (Len(products) * NumMonths)) + 1]
        product == products[((i \div NumMonths) % Len(products)) + 1]
        month   == months[(i % NumMonths) + 1]
        noise   == 100 + 3 * StdNormal(s, 2 * i)
        sales   == Trunc(base_sales(region, product) * month_factor(month.month) * noise, 1000000)
        ratio   == 60 + StdNormal(s, 2 * i + 1)
        cost    == Trunc(sales * ratio, 100)
    IN  [date |-> month, region |-> region, product |-> product,
         sales |-> sales, cost |-> cost, profit |-> Trunc(sales * (100 - ratio), 100)]

\* Variant: the product advances with every row instead of once per
\* twelve months.
GenRow_ProductByRow(s, i) ==
    LET region  == regions[(i \div (Len(products) * NumMonths)) + 1]
        product == products[(i % Len(products)) + 1]
        month   == months[(i % NumMonths) + 1]
        noise   == 100 + 3 * StdNormal(s, 2 * i)
        sales   == Trunc(base_sales(region, product) * month_factor(month.month) * noise, 1000000)
        ratio   == 60 + StdNormal(s, 2 * i + 1)
        cost    == Trunc(sales * ratio, 100)
    IN  [date |-> month, region |-> region, product |-> product,
         sales |-> sales, cost |-> cost, profit |-> sales - cost]

\* The rows appended by the nested loop, in loop order.  Row number i
\* (0-based) consumes draws 2i (noise) and 2i + 1 (cost variation).
GenRow(s, i) ==
    LET region  == regions[(i \div (Len(products) * NumMonths)) + 1]
        product == products[((i \div NumMonths) % Len(products)) + 1]
        month   == months[(i % NumMonths) + 1]
        \* np.random.normal(1, 0.15), in hundredths
        noise   == 100 + 3 * StdNormal(s, 2 * i)
        sales   == Trunc(base_sales(region, product) * month_factor(month.month) * noise, 1000000)
        \* 0.6 + np.random.normal(0, 0.05), in hundredths
        ratio   == 60 + StdNormal(s, 2 * i + 1)
        cost    == Trunc(sales * ratio, 100)
    IN  [date |-> month, region |-> region, product |-> product,
         sales |-> sales, cost |-> cost, profit |-> sales - cost]

NumRows == Len(regions) * Len(products) * NumMonths

\* pd.DataFrame(data): the rows in order under the default index 0..n-1.
DataFrame(data) == AsList([i \in 1..Len(data) |-> [label |-> i - 1, row |-> data[i]]])

\* ------------------------------------------------------------ pandas
Range(f) == {f[i] : i \in DOMAIN f}

Columns(f) == IF Len(f) = 0 THEN {} ELSE DOMAIN f[1].row

\* The entries lo..hi of f whose mask value is TRUE, by halves.
RECURSIVE FilterRange(_, _, _, _)
FilterRange(f, mask, lo, hi) ==
    IF lo > hi THEN <<>>
    ELSE IF lo = hi THEN (IF mask[lo] THEN <<f[lo]>> ELSE <<>>)
    ELSE LET mid == (lo + hi) \div 2
         IN  FilterRange(f, mask, lo, mid) \o FilterRange(f, mask, mid + 1, hi)

\* frame[mask]: the entries at which the boolean mask holds, labels kept.
Filter(f, mask) == FilterRange(f, mask, 1, Len(f))

\* frame[col] == value
Eq(f, col, value) == AsList([i \in DOMAIN f |-> f[i].row[col] = value])

\* frame[col] >= literal, <= literal, < literal for a datetime column: the
\* literal is parsed to a Timestamp and compared row by row.
Ge(f, col, literal) == AsList([i \in DOMAIN f |-> TsLeq(to_timestamp(literal), f[i].row[col])])
Le(f, col, literal) == AsList([i \in DOMAIN f |-> TsLeq(f[i].row[col], to_timestamp(literal))])
Lt(f, col, literal) == AsList([i \in DOMAIN f |-> TsLess(f[i].row[col], to_timestamp(literal))])

\* mask1 & mask2
And(mask1, mask2) == AsList([i \in DOMAIN mask1 |-> mask1[i] /\ mask2[i]])

\* frame[[c1, c2, ...]]: the same entries restricted to the given columns.
SelectColumns(f, cols) ==
    AsList([i \in DOMAIN f |-> [label |-> f[i].label, row |-> [c \in cols |-> f[i].row[c]]]])

\* frame[col] = values: every row gains (or has replaced) the column.
AssignColumn(f, col, values) ==
    AsList([i \in DOMAIN f |-> [label |-> f[i].label, row |-> (col :> values[i]) @@ f[i].row]])

\* The sum of col over entries lo..hi, by halves.
RECURSIVE SumRange(_, _, _, _)
SumRange(f, col, lo, hi) ==
    IF lo > hi THEN 0
    ELSE IF lo = hi THEN f[lo].row[col]
    ELSE LET mid == (lo + hi) \div 2
         IN  SumRange(f, col, lo, mid) + SumRange(f, col, mid + 1, hi)

\* frame[col].sum()
Sum(f, col) == SumRange(f, col, 1, Len(f))

\* reset_index() of a result built as a sequence of rows: labels 0..n-1.
reset_index(rows) == DataFrame(rows)

\* groupby(col): the groups in sorted key order, each with its entries in
\* frame order.
groupby(f, col) ==
    LET keys == SortedStrs({f[i].row[col] : i \in DOMAIN f})
    IN  AsList([k \in DOMAIN keys |->
            [key |-> keys[k], group |-> Filter(f, Eq(f, col, keys[k]))]])

RECURSIVE Flatten(_, _)
Flatten(ss, i) == IF i > Len(ss) THEN <<>> ELSE ss[i] \o Flatten(ss, i + 1)

\* groupby([c1, c2]): the observed key pairs in sorted order (c1 first).
groupby2(f, c1, c2) ==
    LET outer == groupby(f, c1)
    IN  Flatten([k \in DOMAIN outer |->
                    LET inner == groupby(outer[k].group, c2)
                    IN  [j \in DOMAIN inner |->
                            [key1 |-> outer[k].key, key2 |-> inner[j].key,
                             group |-> inner[j].group]]], 1)

\* The position of the first entry (frame order) among lo..hi holding the
\* largest value of col, by halves.
RECURSIVE ArgMax(_, _, _, _)
ArgMax(f, col, lo, hi) ==
    IF lo = hi THEN lo
    ELSE LET mid == (lo + hi) \div 2
             l == ArgMax(f, col, lo, mid)
             r == ArgMax(f, col, mid + 1, hi)
         IN  IF f[r].row[col] > f[l].row[col] THEN r ELSE l

\* The same for the smallest value.
RECURSIVE ArgMin(_, _, _, _)
ArgMin(f, col, lo, hi) ==
    IF lo = hi THEN lo
    ELSE LET mid == (lo + hi) \div 2
             l == ArgMin(f, col, lo, mid)
             r == ArgMin(f, col, mid + 1, hi)
         IN  IF f[r].row[col] < f[l].row[col] THEN r ELSE l

\* Series.idxmax() / idxmin(): the label of the first extreme entry.
idxmax(f, col) == f[ArgMax(f, col, 1, Len(f))].label
idxmin(f, col) == f[ArgMin(f, col, 1, Len(f))].label

Remove(f, i) == SubSeq(f, 1, i - 1) \o SubSeq(f, i + 1, Len(f))

\* sort_values(col, ascending=False).head(n): descending, equal values in
\* frame order, labels kept.
RECURSIVE SortHead(_, _, _)
SortHead(f, col, n) ==
    IF n = 0 \/ Len(f) = 0 THEN <<>>
    ELSE LET i == ArgMax(f, col, 1, Len(f))
         IN  <<f[i]>> \o SortHead(Remove(f, i), col, n - 1)

sort_values(f, col) == SortHead(f, col, Len(f))

\* Variant: positional lookup (iloc) with the labels taken as positions.
iloc(f, labels) == AsList([k \in DOMAIN labels |-> f[labels[k] + 1]])

\* frame.loc[labels]: the entries carrying the labels, in the labels' order.
loc(f, labels) ==
    AsList([k \in DOMAIN labels |-> CHOOSE e \in Range(f) : e.label = labels[k]])

\* (num / den * 100).round(2), in hundredths.
Percent(num, den) == RoundDiv(num * 10000, den)

\* A float kept exact as <<numerator, denominator>>; 0/0 is NaN.
NaN == <<0, 0>>
isna(x) == x[1] = 0 /\ x[2] = 0

\* Series.pct_change() * 100 over frame order: NaN first, then
\* (value - previous) / previous * 100.
pct_change100(f, col) ==
    AsList([i \in DOMAIN f |->
        IF i = 1 THEN NaN
        ELSE <<(f[i].row[col] - f[i - 1].row[col]) * 100, f[i - 1].row[col]>>])

\* frame.dropna() for a frame whose only float column is col.
dropna(f, col) == Filter(f, AsList([i \in DOMAIN f |-> ~isna(f[i].row[col])]))

\* ------------------------------------------------------------ kernel
Defined(name) == name \in DOMAIN ns

NoBindings == [n \in {} |-> {}]

\* Binding names in the kernel's globals: new bindings shadow old ones.
Bind(bindings) == bindings @@ ns

Init ==
    /\ ns = NoBindings
    /\ np_random \in [stream : 1..NumStreams, pos : {0}]
    /\ execution_count = 0
    /\ error = <<>>

\* A cell ran to completion.
Ran ==
    /\ execution_count' = execution_count + 1
    /\ error' = <<>>

\* A cell raised on its first read of a missing name or column; statements
\* before the raise bound nothing.
Raise(exc, name) ==
    /\ execution_count' = execution_count + 1
    /\ error' = <<exc, name>>
    /\ UNCHANGED <<ns, np_random>>

\* A cell ran to completion, binding `bindings`.
Complete(bindings) ==
    /\ ns' = Bind(bindings)
    /\ UNCHANGED np_random
    /\ Ran

df == ns["df"]
region_summary == ns["region_summary"]
monthly_sales == ns["monthly_sales"]
product_profit == ns["product_profit"]
profit_analysis == ns["profit_analysis"]

\* ------------------------------------------------ Part 1: creating data
\* Cell "Create sample data": seeds the generator, runs the nested loop and
\* builds df.
CellCreateData ==
    /\ execution_count < MaxExec
    /\ LET s == np_random.stream
           data == AsList([i \in 1..NumRows |-> GenRow(s, i - 1)])
       IN  /\ ns' = Bind([regions |-> regions, products |-> products,
                          months |-> months, data |-> data, df |-> DataFrame(data)])
           /\ np_random' = [stream |-> s, pos |-> 2 * NumRows]
    /\ Ran

\* Cell "Basic information about the DataFrame": prints shape, dtypes,
\* describe().
CellInfo ==
    /\ execution_count < MaxExec
    /\ IF ~Defined("df") THEN Raise("NameError", "df")
       ELSE Complete(NoBindings)

\* ------------------------------------------------ Part 2: slicing
north_data_of(f) == Filter(f, Eq(f, "region", North))

\* Cell "1. Filter by a single column".
CellFilterRegion ==
    /\ execution_count < MaxExec
    /\ IF ~Defined("df") THEN Raise("NameError", "df")
       ELSE Complete([north_data |-> north_data_of(df)])

product_a_south_of(f) ==
    Filter(f, And(Eq(f, "product", ProductA), Eq(f, "region", South)))

\* Cell "2. Filter by multiple conditions".
CellFilterProductRegion ==
    /\ execution_count < MaxExec
    /\ IF ~Defined("df") THEN Raise("NameError", "df")
       ELSE Complete([product_a_south |-> product_a_south_of(df)])

\* Variant: the upper bound taken as exclusive.
q1_data_of_Exclusive(f) == Filter(f, And(Ge(f, "date", Lit_2023_01_01), Lt(f, "date", Lit_2023_03_31)))

q1_data_of(f) == Filter(f, And(Ge(f, "date", Lit_2023_01_01), Le(f, "date", Lit_2023_03_31)))

\* Cell "3. Filter by date range".
CellFilterDateRange ==
    /\ execution_count < MaxExec
    /\ IF ~Defined("df") THEN Raise("NameError", "df")
       ELSE Complete([q1_data |-> q1_data_of(df)])

\* Cell "4. Select specific columns".
CellSelectColumns ==
    /\ execution_count < MaxExec
    /\ IF ~Defined("df") THEN Raise("NameError", "df")
       ELSE Complete([profit_by_region_product |->
                      SelectColumns(df, {"region", "product", "profit"})])

TopCount == 10

\* Cell "5. Sort data".
CellSortData ==
    /\ execution_count < MaxExec
    /\ IF ~Defined("df") THEN Raise("NameError", "df")
       ELSE Complete([top_profit |-> SortHead(df, "profit", TopCount)])

\* Variant: cost aggregated with 'mean' instead of 'sum'.
region_summary_of_MeanCost(f) ==
    LET g == groupby(f, "region")
    IN  reset_index([k \in DOMAIN g |->
            LET sales == Sum(g[k].group, "sales")
                cost == Sum(g[k].group, "cost") \div Len(g[k].group)
                profit == Sum(g[k].group, "profit")
            IN  [region |-> g[k].key, sales |-> sales, cost |-> cost,
                 profit |-> profit, profit_margin |-> Percent(profit, sales)]])

\* groupby(key).agg({'sales': 'sum', 'cost': 'sum', 'profit': 'sum'})
\* .reset_index() with the profit_margin column added.
region_summary_of(f) ==
    LET g == groupby(f, "region")
    IN  reset_index([k \in DOMAIN g |->
            LET sales == Sum(g[k].group, "sales")
                cost == Sum(g[k].group, "cost")
                profit == Sum(g[k].group, "profit")
            IN  [region |-> g[k].key, sales |-> sales, cost |-> cost,
                 profit |-> profit, profit_margin |-> Percent(profit, sales)]])

\* Cell "6. Aggregation by group".
CellRegionSummary ==
    /\ execution_count < MaxExec
    /\ IF ~Defined("df") THEN Raise("NameError", "df")
       ELSE Complete([region_summary |-> region_summary_of(df)])

\* pd.pivot_table(values='profit', index='region', columns='product',
\* aggfunc='mean').round(2): one entry per region, labelled by it, holding
\* the mean per product in hundredths.
pivot_table_of(f) ==
    LET g == groupby(f, "region")
    IN  AsList([k \in DOMAIN g |->
            LET byProduct == groupby(g[k].group, "product")
            IN  [label |-> g[k].key,
                 row |-> AsList([j \in DOMAIN byProduct |->
                            <<byProduct[j].key,
                              RoundDiv(100 * Sum(byProduct[j].group, "profit"),
                                       Len(byProduct[j].group))>>])]])

\* Cell "7. Pivot table".
CellPivotTable ==
    /\ execution_count < MaxExec
    /\ IF ~Defined("df") THEN Raise("NameError", "df")
       ELSE Complete([pivot_table |-> pivot_table_of(df)])

\* Variant: the date column is also normalised to the first of its month.
with_month_NormalisingDate(f) ==
    AssignColumn(
        AssignColumn(f, "month", AsList([i \in DOMAIN f |-> strftime_Ym(f[i].row.date)])),
        "date",
        AsList([i \in DOMAIN f |->
                    [year |-> f[i].row.date.year, month |-> f[i].row.date.month, day |-> 1]]))

\* df['month'] = df['date'].dt.strftime('%Y-%m')
with_month(f) ==
    AssignColumn(f, "month", AsList([i \in DOMAIN f |-> strftime_Ym(f[i].row.date)]))

\* groupby('month').agg({'sales': 'sum', 'profit': 'sum'}).reset_index()
monthly_sales_of(f) ==
    LET g == groupby(f, "month")
    IN  reset_index([k \in DOMAIN g |->
            [month |-> g[k].key, sales |-> Sum(g[k].group, "sales"),
             profit |-> Sum(g[k].group, "profit")]])

\* Cell "8. Time-based aggregation": adds the month column to df in place,
\* then aggregates by it.
CellMonthlySales ==
    /\ execution_count < MaxExec
    /\ IF ~Defined("df") THEN Raise("NameError", "df")
       ELSE Complete([df |-> with_month(df),
                      monthly_sales |-> monthly_sales_of(with_month(df))])

\* groupby('product')['profit'].sum().reset_index() with the
\* contribution_percentage column added.
product_profit_of(f) ==
    LET g == groupby(f, "product")
        sums == AsList([k \in DOMAIN g |-> Sum(g[k].group, "profit")])
        total_profit == Sum(AsList([k \in DOMAIN g |-> [row |-> [profit |-> sums[k]]]]), "profit")
    IN  reset_index([k \in DOMAIN g |->
            [product |-> g[k].key, profit |-> sums[k],
             contribution_percentage |-> Percent(sums[k], total_profit)]])

\* Cell "9. Custom calculations".
CellProductProfit ==
    /\ execution_count < MaxExec
    /\ IF ~Defined("df") THEN Raise("NameError", "df")
       ELSE Complete([product_profit |-> product_profit_of(df),
                      total_profit |-> Sum(product_profit_of(df), "profit")])

\* ------------------------------------------------ Part 3: charts
\* The figures themselves are not kernel state; a chart cell is its reads
\* and the names it binds.

\* Cell "1. Bar chart: Total sales by region".
CellBarChart ==
    /\ execution_count < MaxExec
    /\ IF ~Defined("region_summary") THEN Raise("NameError", "region_summary")
       ELSE Complete(NoBindings)

\* Cell "2. Line chart: Monthly sales trend".
CellLineChart ==
    /\ execution_count < MaxExec
    /\ IF ~Defined("monthly_sales") THEN Raise("NameError", "monthly_sales")
       ELSE Complete(NoBindings)

\* Cell "3. Pie chart: Profit contribution by product".
CellPieChart ==
    /\ execution_count < MaxExec
    /\ IF ~Defined("product_profit") THEN Raise("NameError", "product_profit")
       ELSE Complete(NoBindings)

\* Cell "4. Heatmap: Average profit by region and product".
CellHeatmap ==
    /\ execution_count < MaxExec
    /\ IF ~Defined("pivot_table") THEN Raise("NameError", "pivot_table")
       ELSE Complete(NoBindings)

\* groupby(['month', 'product'])['sales'].sum().reset_index()
product_monthly_of(f) ==
    LET g == groupby2(f, "month", "product")
    IN  reset_index([k \in DOMAIN g |->
            [month |-> g[k].key1, product |-> g[k].key2, sales |-> Sum(g[k].group, "sales")]])

\* Cell "5. Multiple line chart: Sales trend by product": groups df by its
\* month column, which only the time-based aggregation cell creates.
CellMultiLineChart ==
    /\ execution_count < MaxExec
    /\ IF ~Defined("df") THEN Raise("NameError", "df")
       ELSE IF "month" \notin Columns(df) THEN Raise("KeyError", "month")
       ELSE Complete([product_monthly |-> product_monthly_of(df)])

\* groupby(['region', 'product'])['sales'].sum().reset_index()
region_product_sales_of(f) ==
    LET g == groupby2(f, "region", "product")
    IN  reset_index([k \in DOMAIN g |->
            [region |-> g[k].key1, product |-> g[k].key2, sales |-> Sum(g[k].group, "sales")]])

\* Cell "6. Stacked bar chart: Sales composition by region".
CellStackedBarChart ==
    /\ execution_count < MaxExec
    /\ IF ~Defined("df") THEN Raise("NameError", "df")
       ELSE Complete([region_product_sales |-> region_product_sales_of(df)])

\* Variant: the box plot reads a frame name that no cell binds.
CellBoxPlot_UnboundName ==
    /\ execution_count < MaxExec
    /\ IF ~Defined("sales_df") THEN Raise("NameError", "sales_df")
       ELSE Complete(NoBindings)

\* Cell "7. Box plot: Profit distribution by region".
CellBoxPlot ==
    /\ execution_count < MaxExec
    /\ IF ~Defined("df") THEN Raise("NameError", "df")
       ELSE Complete(NoBindings)

\* Cell "8. Scatter plot: Sales vs. Profit".
CellScatterPlot ==
    /\ execution_count < MaxExec
    /\ IF ~Defined("df") THEN Raise("NameError", "df")
       ELSE Complete(NoBindings)

\* ------------------------------------------------ Part 4: analysis
\* groupby(['region', 'product']).agg(sums).reset_index(), profit_margin
\* added, then sort_values('profit_margin', ascending=False): the labels
\* 0..11 of the grouped order travel with their rows.
profit_analysis_of(f) ==
    LET g == groupby2(f, "region", "product")
    IN  sort_values(
            reset_index([k \in DOMAIN g |->
                LET sales == Sum(g[k].group, "sales")
                    cost == Sum(g[k].group, "cost")
                    profit == Sum(g[k].group, "profit")
                IN  [region |-> g[k].key1, product |-> g[k].key2, sales |-> sales,
                     cost |-> cost, profit |-> profit,
                     profit_margin |-> Percent(profit, sales)]]),
            "profit_margin")

\* Cell "1. Calculate profit margin by region and product".
CellProfitAnalysis ==
    /\ execution_count < MaxExec
    /\ IF ~Defined("df") THEN Raise("NameError", "df")
       ELSE Complete([profit_analysis |-> profit_analysis_of(df)])

\* Cell "2. Visualize profit margins".
CellMarginChart ==
    /\ execution_count < MaxExec
    /\ IF ~Defined("profit_analysis") THEN Raise("NameError", "profit_analysis")
       ELSE Complete(NoBindings)

\* monthly_sales.set_index('month')['sales']: a Series labelled by month.
monthly_sales_ts_of(f) ==
    AsList([i \in DOMAIN f |-> [label |-> f[i].row.month, row |-> f[i].row.sales]])

\* monthly_sales['growth_rate'] = monthly_sales['sales'].pct_change() * 100
with_growth_rate(f) == AssignColumn(f, "growth_rate", pct_change100(f, "sales"))

\* Cell "3. Time series analysis": binds the series and adds growth_rate to
\* monthly_sales in place.
CellTimeSeries ==
    /\ execution_count < MaxExec
    /\ IF ~Defined("monthly_sales") THEN Raise("NameError", "monthly_sales")
       ELSE Complete([monthly_sales_ts |-> monthly_sales_ts_of(monthly_sales),
                      monthly_sales |-> with_growth_rate(monthly_sales)])

\* The table the time-series cell displays:
\* monthly_sales[['month', 'sales', 'growth_rate']].dropna()
growth_table(f) == dropna(SelectColumns(f, {"month", "sales", "growth_rate"}), "growth_rate")

\* Cell "4. Correlation analysis": the coefficients are floating-point
\* results of the library; the binding keeps the matrix's axes.
CellCorrelation ==
    /\ execution_count < MaxExec
    /\ IF ~Defined("df") THEN Raise("NameError", "df")
       ELSE Complete([correlation |-> <<"sales", "cost", "profit">>])

\* profit_analysis.loc[profit_analysis.groupby('region')['profit'].idxmax()]
best_products_of(f) ==
    LET g == groupby(f, "region")
    IN  loc(f, AsList([k \in DOMAIN g |-> idxmax(g[k].group, "profit")]))

\* profit_analysis.loc[profit_analysis.groupby('region')['profit'].idxmin()]
worst_products_of(f) ==
    LET g == groupby(f, "region")
    IN  loc(f, AsList([k \in DOMAIN g |-> idxmin(g[k].group, "profit")]))

\* Cell "5. Identify top performers and growth opportunities".
CellBestWorst ==
    /\ execution_count < MaxExec
    /\ IF ~Defined("profit_analysis") THEN Raise("NameError", "profit_analysis")
       ELSE Complete([best_products |-> best_products_of(profit_analysis),
                      worst_products |-> worst_products_of(profit_analysis)])

\* Cell printing "Worst performing products by region".
CellShowWorst ==
    /\ execution_count < MaxExec
    /\ IF ~Defined("worst_products") THEN Raise("NameError", "worst_products")
       ELSE Complete(NoBindings)

Next ==
    \/ CellCreateData
    \/ CellInfo
    \/ CellFilterRegion
    \/ CellFilterProductRegion
    \/ CellFilterDateRange
    \/ CellSelectColumns
    \/ CellSortData
    \/ CellRegionSummary
    \/ CellPivotTable
    \/ CellMonthlySales
    \/ CellProductProfit
    \/ CellBarChart
    \/ CellLineChart
    \/ CellPieChart
    \/ CellHeatmap
    \/ CellMultiLineChart
    \/ CellStackedBarChart
    \/ CellBoxPlot
    \/ CellScatterPlot
    \/ CellProfitAnalysis
    \/ CellMarginChart
    \/ CellTimeSeries
    \/ CellCorrelation
    \/ CellBestWorst
    \/ CellShowWorst

Spec == Init /\ [][Next]_vars

\* ------------------------------------------------------------ claims
BaseColumns == {"date", "region", "product", "sales", "cost", "profit"}

RegionSet == Range(regions)
ProductSet == Range(products)

RECURSIVE SeqSum(_, _, _)
\* The sum of the integers s[lo..hi], by halves.
SeqSum(s, lo, hi) ==
    IF lo > hi THEN 0
    ELSE IF lo = hi THEN s[lo]
    ELSE LET mid == (lo + hi) \div 2 IN SeqSum(s, lo, mid) + SeqSum(s, mid + 1, hi)

\* The total of column col over the rows of df in region r and of product
\* p, and the number of those rows; AnyKey stands for any region or product.
AnyKey == <<>>

TotalOf(col, r, p) ==
    SeqSum(AsList([i \in DOMAIN df |->
               IF (r = AnyKey \/ df[i].row.region = r) /\ (p = AnyKey \/ df[i].row.product = p)
               THEN df[i].row[col] ELSE 0]), 1, Len(df))

CountOf(r, p) ==
    SeqSum(AsList([i \in DOMAIN df |->
               IF (r = AnyKey \/ df[i].row.region = r) /\ (p = AnyKey \/ df[i].row.product = p)
               THEN 1 ELSE 0]), 1, Len(df))

\* C1: in every row of the sales table profit equals sales minus cost, in
\* the table as generated and after any sequence of cells has run.
C1_ProfitIdentity ==
    Defined("df") =>
        /\ \A i \in DOMAIN ns["data"] :
               ns["data"][i].profit = ns["data"][i].sales - ns["data"][i].cost
        /\ \A i \in DOMAIN df : df[i].row.profit = df[i].row.sales - df[i].row.cost

\* C1 witness: the table has been built and later changed by an analysis
\* step (the month column is present).
C1_Witness == Defined("df") /\ "month" \in Columns(df) /\ Len(df) > 0

\* C2 as stated: once the table exists, no step other than rebuilding it
\* changes its rows, columns or values.
C2_NoMutation == [][Defined("df") => (ns'["df"] = df \/ CellCreateData)]_vars

\* C2 amended: once the table exists, no step other than rebuilding it
\* adds, removes or reorders rows or changes a value of the six generated
\* columns, and the only column a step may add is month.
C2_OnlyMonthAdded ==
    [][Defined("df") =>
        \/ ns'["df"] = df
        \/ CellCreateData
        \/ /\ SelectColumns(ns'["df"], BaseColumns) = SelectColumns(df, BaseColumns)
           /\ Columns(df) \subseteq Columns(ns'["df"])
           /\ Columns(ns'["df"]) \subseteq BaseColumns \cup {"month"}]_vars

\* C2 witness: an analysis step has changed the table (it carries month).
C2_Witness == Defined("df") /\ Columns(df) = BaseColumns \cup {"month"}

\* C3 as stated: once the table exists, every cell executes successfully
\* whatever has or has not run before it.
C3_AlwaysSucceeds == Defined("df") => error = <<>>

\* The names bound by one analysis cell and read by another.
DerivedNames ==
    {"region_summary", "monthly_sales", "product_profit", "pivot_table",
     "profit_analysis", "worst_products"}

\* C3 amended: once the table exists, a cell fails only because the result
\* of another analysis cell that it reads is still missing: a NameError for
\* an unbound derived frame, or a KeyError for the month column.
C3_FailsOnlyOnMissingResult ==
    (Defined("df") /\ error # <<>>) =>
        \/ error[1] = "NameError" /\ error[2] \in DerivedNames /\ ~Defined(error[2])
        \/ error = <<"KeyError", "month">> /\ "month" \notin Columns(df)

\* C3 witness: the table exists and the multi-line chart cell has just
\* failed for want of the month column.
C3_Witness == Defined("df") /\ error = <<"KeyError", "month">>

\* C4: the table has 144 rows, exactly one per combination of the 4
\* regions, 3 products and 12 dates, and the 12 dates lie in 12 distinct
\* months of 2023.
C4_FullGrid ==
    Defined("df") =>
        LET dates == {df[i].row.date : i \in DOMAIN df}
            keys == {<<df[i].row.region, df[i].row.product, df[i].row.date>> : i \in DOMAIN df}
        IN  /\ Len(df) = 144
            /\ Cardinality(RegionSet) = 4 /\ Cardinality(ProductSet) = 3
            /\ Cardinality(dates) = 12
            /\ \A d \in dates : d.year = 2023
            /\ Cardinality({d.month : d \in dates}) = 12
            \* none duplicated: 144 rows carry 144 distinct combinations
            /\ Cardinality(keys) = Len(df)
            \* none missing
            /\ keys = RegionSet \X ProductSet \X dates

\* C4 witness: the generator has run.
C4_Witness == Defined("df") /\ Defined("data") /\ Len(ns["data"]) > 0

\* C5: q1_data holds exactly the table's rows dated January, February or
\* March 2023 (36 rows, March included, April excluded).
C5_FirstQuarter ==
    Defined("q1_data") =>
        LET q1 == ns["q1_data"]
            inQ1 == {i \in DOMAIN df : df[i].row.date.year = 2023 /\ df[i].row.date.month \in 1..3}
        IN  /\ Len(q1) = 36
            /\ {e.label : e \in Range(q1)} = {df[i].label : i \in inQ1}
            \* labels are 0-based positions of df
            /\ \A k \in DOMAIN q1 :
                   /\ df[q1[k].label + 1].label = q1[k].label
                   /\ \A c \in BaseColumns : q1[k].row[c] = df[q1[k].label + 1].row[c]
            /\ \E k \in DOMAIN q1 : q1[k].row.date.month = 3
            /\ \A k \in DOMAIN q1 : q1[k].row.date.month # 4

\* C5 witness: the date-range filter has run.
C5_Witness == Defined("q1_data") /\ Len(ns["q1_data"]) > 0

\* The summed profit of one region-product combination of the table.
ComboProfit(r, p) == TotalOf("profit", r, p)

\* C6: best_products (worst_products) has exactly one row per region, and
\* it is a region-product combination whose summed profit is the largest
\* (smallest) among that region's products.
C6_BestWorstPerRegion ==
    Defined("best_products") =>
        LET best == ns["best_products"]
            worst == ns["worst_products"]
        IN  /\ Len(best) = 4 /\ Len(worst) = 4
            /\ \A r \in RegionSet :
                 /\ Cardinality({k \in DOMAIN best : best[k].row.region = r}) = 1
                 /\ Cardinality({k \in DOMAIN worst : worst[k].row.region = r}) = 1
            /\ \A k \in DOMAIN best :
                 /\ best[k].row.profit = ComboProfit(best[k].row.region, best[k].row.product)
                 /\ \A p \in ProductSet :
                        ComboProfit(best[k].row.region, p) <= best[k].row.profit
            /\ \A k \in DOMAIN worst :
                 /\ worst[k].row.profit = ComboProfit(worst[k].row.region, worst[k].row.product)
                 /\ \A p \in ProductSet :
                        ComboProfit(worst[k].row.region, p) >= worst[k].row.profit

\* C6 witness: best_products was looked up in a profit_analysis whose row
\* order differs from its label order.
C6_Witness ==
    /\ Defined("best_products")
    /\ \E k \in DOMAIN profit_analysis : profit_analysis[k].label # k - 1

\* '2023-01' .. '2023-12' as Python str.
MonthKey(m) == <<50, 48, 50, 51, 45, 48 + (m \div 10), 48 + (m % 10)>>

\* C7: monthly_sales has 12 rows, the months of 2023 in chronological
\* order, each with the sums of sales and profit over that month's 12
\* rows; once the growth rate is added it is undefined in the first row
\* only, and the displayed table has 11 rows, each comparing a month with
\* the month immediately before it.
C7_MonthlySales ==
    Defined("monthly_sales") =>
        LET rows == AsList([m \in 1..12 |-> SelectSeq(df, LAMBDA e : e.row.date.month = m)])
            sales == AsList([m \in 1..12 |->
                        SeqSum(AsList([k \in DOMAIN rows[m] |-> rows[m][k].row.sales]),
                               1, Len(rows[m]))])
            profit == AsList([m \in 1..12 |->
                        SeqSum(AsList([k \in DOMAIN rows[m] |-> rows[m][k].row.profit]),
                               1, Len(rows[m]))])
        IN
        /\ Len(monthly_sales) = 12
        /\ \A m \in 1..12 :
             /\ monthly_sales[m].row.month = MonthKey(m)
             /\ Len(rows[m]) = 12
             /\ monthly_sales[m].row.sales = sales[m]
             /\ monthly_sales[m].row.profit = profit[m]
        /\ "growth_rate" \in Columns(monthly_sales) =>
             LET shown == growth_table(monthly_sales) IN
             /\ \A m \in 1..12 : isna(monthly_sales[m].row.growth_rate) <=> m = 1
             /\ Len(shown) = 11
             /\ \A k \in 1..11 :
                  /\ shown[k].row.month = MonthKey(k + 1)
                  /\ shown[k].row.growth_rate = <<100 * (sales[k + 1] - sales[k]), sales[k]>>

\* C7 witness: the growth rate has been added to monthly_sales.
C7_Witness == Defined("monthly_sales") /\ "growth_rate" \in Columns(monthly_sales)

\* C8: region_summary has one row per region holding the sums over that
\* region's 36 rows, so profit = sales - cost in each of its rows; and the
\* region, product and monthly profit totals all equal the table's total.
C8_Conservation ==
    /\ Defined("region_summary") =>
         /\ Len(region_summary) = 4
         /\ {region_summary[k].row.region : k \in DOMAIN region_summary} = RegionSet
         /\ \A k \in DOMAIN region_summary :
              LET e == region_summary[k].row IN
              /\ CountOf(e.region, AnyKey) = 36
              /\ e.sales = TotalOf("sales", e.region, AnyKey)
              /\ e.cost = TotalOf("cost", e.region, AnyKey)
              /\ e.profit = TotalOf("profit", e.region, AnyKey)
              /\ e.profit = e.sales - e.cost
    /\ (Defined("region_summary") /\ Defined("product_profit") /\ Defined("monthly_sales")) =>
         LET grand == TotalOf("profit", AnyKey, AnyKey) IN
         /\ SeqSum(AsList([k \in DOMAIN region_summary |-> region_summary[k].row.profit]),
                   1, Len(region_summary)) = grand
         /\ SeqSum(AsList([k \in DOMAIN product_profit |-> product_profit[k].row.profit]),
                   1, Len(product_profit)) = grand
         /\ ns["total_profit"] = grand
         /\ SeqSum(AsList([k \in DOMAIN monthly_sales |-> monthly_sales[k].row.profit]),
                   1, Len(monthly_sales)) = grand

\* C8 witness: the three aggregations have all run.
C8_Witness ==
    Defined("region_summary") /\ Defined("product_profit") /\ Defined("monthly_sales")

====
